---- MODULE Spec2Model ----
(***************************************************************************)
(* A model of the QR code generator: the web pipeline make_qr with its     *)
(* colour resolution, transparency transform, frame and personalization    *)
(* stages (src/app.py), the upload handling of the index view (src/app.py) *)
(* and the command-line generate_qr (src/qrgen.py).                        *)
(*                                                                         *)
(* Raster images of the pipeline are kept as geometry: a size, a mode and  *)
(* the list of shapes drawn so far, in drawing order.  PixelAt reads one   *)
(* pixel back from that list.  The transparency transform is also modelled *)
(* on explicit pixel sequences (the flattened getdata() view it works on). *)
(***************************************************************************)
EXTENDS Integers, Sequences, FiniteSets, TLC

VARIABLES
    req,      \* the request being served (arguments of make_qr / generate_qr)
    pc,       \* position inside make_qr / generate_qr
    trace,    \* the stages executed so far, in order
    colors,   \* the (fg, bg) pair after hex_or_default and apply_style_preset
    qr,       \* the encoded symbol: version, error correction, box size, border
    img,      \* the raster image being built
    base,     \* the image handed to the personalization stage
    out,      \* what the entry point returned, raised or wrote
    rawc,     \* colour resolution alone: the raw (fg, bg, preset) strings
    resc,     \* colour resolution alone: the resolved pair
    pix,      \* transparency alone: the flattened pixel sequence
    once,     \* transparency alone: the pixels after the first application
    applied,  \* transparency alone: how many times the transform ran
    fs,       \* uploads folder: file name -> content, or Absent
    rq,       \* per web request of the index view: its position and upload
    res       \* per web request of the index view: what it read and its error

vars == <<req, pc, trace, colors, qr, img, base, out, rawc, resc,
          pix, once, applied, fs, rq, res>>

----------------------------------------------------------------------------
(* Bounds of the model *)

\* symbol versions 1..MaxVersion (grid dimension 17 + 4 * version)
MaxVersion == 2
\* module sizes: 1 and the multiples of 10 up to 10 * MaxBoxScale
MaxBoxScale == 2
\* quiet-zone widths 0..MaxBorder, and the default border
MaxBorder == 1
\* raw colour strings: up to MaxHexDigits digits after the optional '#'
MaxHexDigits == 7
\* raw colour strings: up to MaxPad blanks on each side
MaxPad == 1
\* concurrent web requests served by the index view
MaxRequests == 2
\* transparency on pixel sequences: modules in the row
MaxModules == 4

----------------------------------------------------------------------------
(* Python helpers *)

Min(a, b) == IF a < b THEN a ELSE b
Max(a, b) == IF a > b THEN a ELSE b

\* str.strip() on blanks
RECURSIVE LStrip(_)
LStrip(s) == IF s # "" /\ Head(s) = " " THEN LStrip(Tail(s)) ELSE s
RECURSIVE RStrip(_)
RStrip(s) ==
    IF s # "" /\ SubSeq(s, Len(s), Len(s)) = " "
    THEN RStrip(SubSeq(s, 1, Len(s) - 1)) ELSE s
Strip(s) == RStrip(LStrip(s))

StartsWithHash(s) == s # "" /\ Head(s) = "#"

----------------------------------------------------------------------------
(* Colour resolution: hex_or_default and apply_style_preset *)

DefaultFg == "#000000"
DefaultBg == "#ffffff"

\* hex_or_default without line 30 (value.strip())
hex_or_default_nostrip(value, default) ==
    IF value = "" THEN default
    ELSE LET v == IF StartsWithHash(value) THEN value ELSE "#" \o value
         IN IF Len(v) \notin {4, 7} THEN default ELSE v

hex_or_default(value, default) ==
    IF value = "" THEN default
    ELSE LET s == Strip(value)
             v == IF StartsWithHash(s) THEN s ELSE "#" \o s
         IN IF Len(v) \notin {4, 7} THEN default ELSE v

presets ==
    [gold          |-> <<"#b38b1b", "#faf5e6">>,
     silver        |-> <<"#6f7c89", "#f5f5f7">>,
     wedding_ivory |-> <<"#C6A667", "#FBF7F2">>,
     birthday      |-> <<"#E63946", "#F8EDFF">>,
     minimal_tech  |-> <<"#000000", "#FFFFFF">>,
     craft_beer    |-> <<"#8B4513", "#FFF8DC">>]

apply_style_preset(style_preset, fg_color, bg_color) ==
    LET p == IF style_preset = "" THEN "custom" ELSE style_preset
    IN IF p \in DOMAIN presets THEN presets[p] ELSE <<fg_color, bg_color>>

\* make_qr lines 307-309: normalize both colours, then apply the preset
ResolveColorPair(fg_raw, bg_raw, style_preset) ==
    apply_style_preset(style_preset,
                       hex_or_default(fg_raw, DefaultFg),
                       hex_or_default(bg_raw, DefaultBg))

----------------------------------------------------------------------------
(* Raster images as geometry *)

BandHeight == 100

NoImage == [w |-> 0, h |-> 0, qh |-> 0, q0 |-> 0, q1 |-> 0, mode |-> "none",
            fg |-> "", bg |-> "", cleared |-> {}, layers |-> <<>>]

\* grid dimension of a symbol version
GridDimension(version) == 17 + 4 * version

\* one drawn shape; (x0, y0, x1, y1) is its bounding box, bounds included
Layer(kind, x0, y0, x1, y1, stroke, fill, outline, circular, text) ==
    [kind |-> kind, x0 |-> x0, y0 |-> y0, x1 |-> x1, y1 |-> y1,
     stroke |-> stroke, fill |-> fill, outline |-> outline,
     circular |-> circular, text |-> text]

InBox(l, x, y) == l.x0 <= x /\ x <= l.x1 /\ l.y0 <= y /\ y <= l.y1

\* inside the circle inscribed in the (square) bounding box, shrunk by inset
InDisk(l, x, y, inset) ==
    LET d == (l.x1 - l.x0) - 2 * inset
        dx == 2 * x - (l.x0 + l.x1)
        dy == 2 * y - (l.y0 + l.y1)
    IN d >= 0 /\ dx * dx + dy * dy <= d * d

\* the pixels a shape paints.  A frame paints the stroke of its rectangle
\* (the rounded corners of rounded_rectangle only leave corner pixels out);
\* a caption paints inside its bounding box.
Paints(l, x, y) ==
    CASE l.kind = "frame" ->
           /\ InBox(l, x, y)
           /\ \/ x - l.x0 < l.stroke \/ l.x1 - x < l.stroke
              \/ y - l.y0 < l.stroke \/ l.y1 - y < l.stroke
      [] l.kind = "ellipse" -> InBox(l, x, y) /\ InDisk(l, x, y, 0)
      [] l.kind \in {"paste", "watermark"} ->
           InBox(l, x, y) /\ (l.circular => InDisk(l, x, y, 0))
      [] OTHER -> InBox(l, x, y)

\* the colour a shape leaves at a pixel it paints
LayerColour(l, x, y) ==
    CASE l.kind = "ellipse" ->
           IF l.stroke > 0 /\ ~InDisk(l, x, y, l.stroke) THEN l.outline ELSE l.fill
      [] l.kind = "frame" -> l.outline
      [] OTHER -> l.fill

InSymbol(im, x, y) == im.q0 <= x /\ x < im.q1 /\ im.q0 <= y /\ y < im.q1

White == "#ffffff"

\* the rendered pixel under all shapes: a module of the symbol (its value is
\* the encoder's), the quiet zone, or the band a canvas adds below
RenderedPixel(im, x, y) ==
    IF y >= im.qh THEN [rgb |-> im.bg, a |-> 255]
    ELSE IF InSymbol(im, x, y)
         THEN IF im.cleared = {"fg", "bg"} THEN [rgb |-> White, a |-> 0]
              ELSE [rgb |-> "module", a |-> 255]
         ELSE IF "bg" \in im.cleared THEN [rgb |-> White, a |-> 0]
              ELSE [rgb |-> im.bg, a |-> 255]

PixelAt(im, x, y) ==
    LET hits == {k \in DOMAIN im.layers : Paints(im.layers[k], x, y)}
        top == CHOOSE k \in hits : \A j \in hits : j <= k
        p == IF hits = {} THEN RenderedPixel(im, x, y)
             ELSE [rgb |-> LayerColour(im.layers[top], x, y), a |-> 255]
    IN IF im.mode = "RGB" THEN [rgb |-> p.rgb, a |-> 255] ELSE p

\* qr.make_image(...).convert("RGBA"): a square of (V + 2 * border) * box_size
RenderPngImage(version, box_size, border, fg, bg) ==
    LET side == (GridDimension(version) + 2 * border) * box_size
    IN [w |-> side, h |-> side, qh |-> side,
        q0 |-> border * box_size,
        q1 |-> (border + GridDimension(version)) * box_size,
        mode |-> "RGBA", fg |-> fg, bg |-> bg, cleared |-> {}, layers |-> <<>>]

\* make_qr lines 337-346 on the rendered image: the pixel at the origin is a
\* quiet-zone pixel, or with border 0 the dark corner module of the finder
\* pattern; every pixel of that RGB becomes (255, 255, 255, 0)
ClearBackground(im, border) ==
    LET sampled == IF border = 0 THEN "fg" ELSE "bg"
    IN [im EXCEPT !.cleared = IF im.fg = im.bg THEN {"fg", "bg"} ELSE {sampled}]

----------------------------------------------------------------------------
(* Text: str.upper() and the bounding box the font gives *)

UpperOf ==
    [c \in {"a","b","c","d","e","f","g","h","i","j","k","l","m","n","o","p",
            "q","r","s","t","u","v","w","x","y","z"} |->
       CASE c = "a" -> "A" [] c = "b" -> "B" [] c = "c" -> "C" [] c = "d" -> "D"
         [] c = "e" -> "E" [] c = "f" -> "F" [] c = "g" -> "G" [] c = "h" -> "H"
         [] c = "i" -> "I" [] c = "j" -> "J" [] c = "k" -> "K" [] c = "l" -> "L"
         [] c = "m" -> "M" [] c = "n" -> "N" [] c = "o" -> "O" [] c = "p" -> "P"
         [] c = "q" -> "Q" [] c = "r" -> "R" [] c = "s" -> "S" [] c = "t" -> "T"
         [] c = "u" -> "U" [] c = "v" -> "V" [] c = "w" -> "W" [] c = "x" -> "X"
         [] c = "y" -> "Y" [] c = "z" -> "Z"]

RECURSIVE Upper(_)
Upper(s) ==
    IF s = "" THEN ""
    ELSE (IF Head(s) \in DOMAIN UpperOf THEN UpperOf[Head(s)] ELSE Head(s))
         \o Upper(Tail(s))

\* text[:n]
Prefix(s, n) == SubSeq(s, 1, Min(n, Len(s)))

\* draw.textbbox((0, 0), text, font): <<width, height>>.  The font is the
\* first one that loads: the DejaVu face at the asked size, or the built-in
\* bitmap font of load_default(); either outcome is admitted.
TextBBox(text, size) ==
    { <<6 * Len(text), 11>>,
      <<(7 * size * Len(text)) \div 10, (73 * size) \div 100>> }

----------------------------------------------------------------------------
(* Frame and personalization: decorate_png_qr and the three modes *)

\* request content: Python None, a text (possibly empty) or an uploaded file
NoContent == [kind |-> "none", text |-> ""]
TextContent(t) == [kind |-> "text", text |-> t]
FileContent == [kind |-> "file", text |-> ""]

\* Python truthiness of content
Truthy(content) ==
    content.kind = "file" \/ (content.kind = "text" /\ content.text # "")

Draw(im, shapes) == [im EXCEPT !.layers = im.layers \o shapes]

\* decorate_png_qr lines 263-274
FrameMargin(size) == (size * 35) \div 1000
FrameWidth(size) == Max(2, (size * 15) \div 1000)

add_frame(im, fg_color) ==
    LET size == Min(im.w, im.h)
        margin == FrameMargin(size)
    IN Draw(im, << Layer("frame", margin, margin, im.w - margin, im.h - margin,
                         FrameWidth(size), "", fg_color, FALSE, "") >>)

\* add_minimal_personalization; dims is the caption's <<width, height>>
BadgeSize(width) == width \div 4

add_minimal_personalization(im, content_type, content, fg_color, bg_color, dims) ==
    LET width == im.w
        height == im.h
        canvas == [im EXCEPT !.h = height + BandHeight, !.mode = "RGB",
                             !.bg = bg_color]
    IN IF content_type = "text" /\ Truthy(content)
       THEN LET text == Upper(content.text)
                x == (width - dims[1]) \div 2
                y == height + (BandHeight - dims[2]) \div 2
            IN Draw(canvas,
                 << Layer("text", x + 2, y + 2, x + 2 + dims[1] - 1,
                          y + 2 + dims[2] - 1, 0, fg_color \o "40", "", FALSE, text),
                    Layer("text", x, y, x + dims[1] - 1, y + dims[2] - 1,
                          0, fg_color, "", FALSE, text) >>)
       ELSE IF content_type \in {"logo", "image"} /\ Truthy(content)
       THEN LET badge_size == BadgeSize(width)
                logo_x == (width - badge_size) \div 2
                logo_y == height + (BandHeight - badge_size) \div 2
            IN Draw(canvas,
                 << Layer("ellipse", logo_x - 5, logo_y - 5,
                          logo_x + badge_size + 5, logo_y + badge_size + 5,
                          0, bg_color, "", TRUE, ""),
                    Layer("paste", logo_x, logo_y, logo_x + badge_size - 1,
                          logo_y + badge_size - 1, 0, "logo", "",
                          content_type = "image", "") >>)
       ELSE canvas

\* add_focal_personalization; dims is the initials' <<width, height>>
SafeRadius(width, height) == (Min(width, height) * 15) \div 100
CircleRadius(dims) == Max(dims[1], dims[2]) \div 2 + 20

add_focal_personalization(im, content_type, content, fg_color, bg_color, dims) ==
    LET center_x == im.w \div 2
        center_y == im.h \div 2
        safe_radius == SafeRadius(im.w, im.h)
    IN IF content_type = "text" /\ Truthy(content)
       THEN LET text == Prefix(Upper(content.text), 3)
                circle_radius == CircleRadius(dims)
                text_x == center_x - dims[1] \div 2
                text_y == center_y - dims[2] \div 2
            IN Draw(im,
                 << Layer("ellipse", center_x - circle_radius,
                          center_y - circle_radius, center_x + circle_radius,
                          center_y + circle_radius, 4, bg_color, fg_color, TRUE, ""),
                    Layer("text", text_x, text_y, text_x + dims[1] - 1,
                          text_y + dims[2] - 1, 0, fg_color, "", FALSE, text) >>)
       ELSE IF content_type \in {"logo", "image"} /\ Truthy(content)
       THEN LET logo_size == safe_radius * 2
                half == logo_size \div 2
            IN Draw(im,
                 << Layer("ellipse", center_x - half - 10, center_y - half - 10,
                          center_x + half + 10, center_y + half + 10,
                          6, bg_color, fg_color, TRUE, ""),
                    Layer("paste", center_x - half, center_y - half,
                          center_x - half + logo_size - 1,
                          center_y - half + logo_size - 1,
                          0, "logo", "", TRUE, "") >>)
       ELSE im

\* add_easter_egg_personalization lines 215-219: int(fg_color[5:7], 16) of an
\* empty slice raises ValueError
EasterEggRaises(content_type, content, fg_color) ==
    /\ content_type = "text" /\ Truthy(content)
    /\ StartsWithHash(fg_color) /\ Len(fg_color) < 6

WatermarkSize(width, height) == (Min(width, height) * 4) \div 10

add_easter_egg_personalization(im, content_type, content, fg_color, dims) ==
    IF content_type = "text" /\ Truthy(content)
    THEN LET text == Upper(content.text)
             Stamp(x, y) == Layer("text", x, y, x + dims[1] - 1, y + dims[2] - 1,
                                  0, "blend", "", FALSE, text)
         IN Draw(im, << Stamp(im.w - 80, im.h - 20), Stamp(20, im.h \div 2),
                        Stamp(im.w \div 2 - 30, 20) >>)
    ELSE IF content_type \in {"logo", "image"} /\ Truthy(content)
    THEN LET watermark_size == WatermarkSize(im.w, im.h)
             logo_x == (im.w - watermark_size) \div 2
             logo_y == (im.h - watermark_size) \div 2
         IN [Draw(im, << Layer("watermark", logo_x, logo_y,
                               logo_x + watermark_size - 1,
                               logo_y + watermark_size - 1,
                               0, "blend", "", FALSE, "") >>)
             EXCEPT !.mode = "RGB"]
    ELSE im

----------------------------------------------------------------------------
(* The pipeline: make_qr (src/app.py) and generate_qr (src/qrgen.py) *)

BoxSizes == {1} \cup {10 * k : k \in 1..MaxBoxScale}
DefaultBorder == 4
Borders == (0..MaxBorder) \cup {DefaultBorder}
Versions == 1..MaxVersion

Contents(content_type) ==
    IF content_type = "text"
    THEN {NoContent, TextContent(""), TextContent("ab")}
    ELSE {NoContent, FileContent}

WebRequests ==
    { [entry |-> "web", data |-> d, box_size |-> bs, border |-> bo,
       fg_color |-> fgc, bg_color |-> "#ffffff", transparent_bg |-> tb,
       image_format |-> fmt, style_preset |-> sp, add_frame |-> fr,
       personalization_mode |-> pm, content_type |-> ct, content |-> c] :
        d \in {"", "https://example.com"}, bs \in BoxSizes, bo \in Borders,
        fgc \in {"#000000", "abc"}, tb \in BOOLEAN, fmt \in {"png", "svg"},
        sp \in {"custom", "gold"}, fr \in BOOLEAN,
        pm \in {"none", "minimal", "focal", "easter_egg"},
        ct \in {"text", "logo", "image"},
        c \in {NoContent, TextContent(""), TextContent("ab"), FileContent} }

\* generate_qr takes data, output_path, box_size and border only
CliRequests ==
    { [entry |-> "cli", data |-> d, box_size |-> bs, border |-> bo,
       fg_color |-> "", bg_color |-> "", transparent_bg |-> FALSE,
       image_format |-> "png", style_preset |-> "", add_frame |-> FALSE,
       personalization_mode |-> "none", content_type |-> "text",
       content |-> NoContent] :
        d \in {"", "https://example.com"}, bs \in BoxSizes, bo \in Borders }

Requests ==
    {r \in WebRequests : r.content \in Contents(r.content_type)} \cup CliRequests

NoOutput == [kind |-> "none", filename |-> "", background |-> "", error |-> ""]
NoSymbol == [version |-> 0, ec |-> "", box_size |-> 0, border |-> 0]

\* `if not data` of make_qr and of generate_qr
DataMissingNever(data) == FALSE
DataMissing(data) == data = ""

\* error_correction of make_qr's QRCode(...)
MakeQrErrorCorrectionLow == "M"
MakeQrErrorCorrection == "H"
\* error_correction of generate_qr's QRCode(...)
GenerateQrErrorCorrection == "M"

\* back_color of the SVG render
SvgBackColorIgnoringFlag(transparent_bg, bg_color) == bg_color
SvgBackColor(transparent_bg, bg_color) ==
    IF transparent_bg THEN "transparent" ELSE bg_color

IdleColor ==
    /\ rawc = [fg |-> "", bg |-> "", preset |-> "", resolved |-> FALSE]
    /\ resc = <<"", "">>
IdlePixels == pix = <<>> /\ once = <<>> /\ applied = 0
IdleWeb == fs = <<>> /\ rq = <<>> /\ res = <<>>
IdlePipe ==
    /\ req = [entry |-> "none"]
    /\ pc = "idle" /\ trace = <<>> /\ colors = <<"", "">>
    /\ qr = NoSymbol /\ img = NoImage /\ base = NoImage /\ out = NoOutput

Init ==
    /\ req \in Requests
    /\ pc = IF req.entry = "web" THEN "validate" ELSE "cli_validate"
    /\ trace = <<>>
    /\ colors = <<"", "">>
    /\ qr = NoSymbol
    /\ img = NoImage
    /\ base = NoImage
    /\ out = NoOutput
    /\ IdleColor /\ IdlePixels /\ IdleWeb

\* the variables of the other specifications, which the pipeline leaves alone
outsidePipe == <<rawc, resc, pix, once, applied, fs, rq, res>>
outsideWeb == <<req, pc, trace, colors, qr, img, base, out,
                rawc, resc, pix, once, applied>>

Stage(name) == trace' = Append(trace, name)

\* make_qr lines 304-305
Validate ==
    /\ pc = "validate"
    /\ Stage("validate")
    /\ IF DataMissing(req.data)
       THEN /\ pc' = "failed"
            /\ out' = [NoOutput EXCEPT !.kind = "error",
                                       !.error = "No data provided"]
       ELSE /\ pc' = "resolve"
            /\ out' = out
    /\ UNCHANGED <<req, colors, qr, img, base>>
    /\ UNCHANGED outsidePipe

\* make_qr lines 307-309
ResolveColors ==
    /\ pc = "resolve"
    /\ Stage("resolve")
    /\ colors' = ResolveColorPair(req.fg_color, req.bg_color, req.style_preset)
    /\ pc' = "encode"
    /\ UNCHANGED <<req, qr, img, base, out>>
    /\ UNCHANGED outsidePipe

\* make_qr lines 311-318; the version that fits the data is the encoder's choice
Encode ==
    /\ pc = "encode"
    /\ Stage("encode")
    /\ \E version \in Versions :
         qr' = [version |-> version, ec |-> MakeQrErrorCorrection,
                box_size |-> req.box_size, border |-> req.border]
    /\ pc' = "render"
    /\ UNCHANGED <<req, colors, img, base, out>>
    /\ UNCHANGED outsidePipe

\* make_qr lines 321-331
RenderSvg ==
    /\ pc = "render"
    /\ req.image_format = "svg"
    /\ Stage("render_svg")
    /\ out' = [kind |-> "svg", filename |-> "qr-code.svg",
               background |-> SvgBackColor(req.transparent_bg, colors[2]),
               error |-> ""]
    /\ pc' = "done"
    /\ UNCHANGED <<req, colors, qr, img, base>>
    /\ UNCHANGED outsidePipe

\* make_qr line 334
RenderPng ==
    /\ pc = "render"
    /\ req.image_format # "svg"
    /\ Stage("render_png")
    /\ img' = RenderPngImage(qr.version, qr.box_size, qr.border,
                             colors[1], colors[2])
    /\ pc' = "transparency"
    /\ UNCHANGED <<req, colors, qr, base, out>>
    /\ UNCHANGED outsidePipe

\* make_qr lines 337-349
Transparency ==
    /\ pc = "transparency"
    /\ IF req.transparent_bg
       THEN /\ Stage("transparency")
            /\ img' = ClearBackground(img, qr.border)
       ELSE UNCHANGED <<trace, img>>
    /\ pc' = IF req.add_frame \/ req.personalization_mode # "none"
             THEN "frame" ELSE "encode_png"
    /\ UNCHANGED <<req, colors, qr, base, out>>
    /\ UNCHANGED outsidePipe

\* decorate_png_qr lines 260-274
Frame ==
    /\ pc = "frame"
    /\ IF req.add_frame
       THEN /\ Stage("frame")
            /\ img' = add_frame(img, colors[1])
       ELSE UNCHANGED <<trace, img>>
    /\ base' = img'
    /\ pc' = "personalize"
    /\ UNCHANGED <<req, colors, qr, out>>
    /\ UNCHANGED outsidePipe

\* the caption a mode draws and the size of its font
CaptionOf(mode, content) ==
    IF mode = "focal" THEN Prefix(Upper(content.text), 3) ELSE Upper(content.text)
FontSizeOf(mode) ==
    CASE mode = "minimal" -> 48 [] mode = "focal" -> 120 [] OTHER -> 8
CaptionBoxes(mode, content_type, content) ==
    IF content_type = "text" /\ Truthy(content)
    THEN TextBBox(CaptionOf(mode, content), FontSizeOf(mode))
    ELSE {<<0, 0>>}

\* decorate_png_qr lines 277-278
PersonalizeMinimal ==
    /\ pc = "personalize"
    /\ req.personalization_mode = "minimal"
    /\ Stage("personalize")
    /\ \E dims \in CaptionBoxes("minimal", req.content_type, req.content) :
         img' = add_minimal_personalization(img, req.content_type, req.content,
                                            colors[1], colors[2], dims)
    /\ pc' = "encode_png"
    /\ UNCHANGED <<req, colors, qr, base, out>>
    /\ UNCHANGED outsidePipe

\* decorate_png_qr lines 279-280
PersonalizeFocal ==
    /\ pc = "personalize"
    /\ req.personalization_mode = "focal"
    /\ Stage("personalize")
    /\ \E dims \in CaptionBoxes("focal", req.content_type, req.content) :
         img' = add_focal_personalization(img, req.content_type, req.content,
                                          colors[1], colors[2], dims)
    /\ pc' = "encode_png"
    /\ UNCHANGED <<req, colors, qr, base, out>>
    /\ UNCHANGED outsidePipe

\* decorate_png_qr lines 281-282; the ValueError leaves make_qr
PersonalizeEasterEgg ==
    /\ pc = "personalize"
    /\ req.personalization_mode = "easter_egg"
    /\ Stage("personalize")
    /\ IF EasterEggRaises(req.content_type, req.content, colors[1])
       THEN /\ img' = img
            /\ pc' = "failed"
            /\ out' = [NoOutput EXCEPT !.kind = "error", !.error = "ValueError"]
       ELSE /\ \E dims \in CaptionBoxes("easter_egg", req.content_type, req.content) :
                 img' = add_easter_egg_personalization(
                            img, req.content_type, req.content, colors[1], dims)
            /\ pc' = "encode_png"
            /\ out' = out
    /\ UNCHANGED <<req, colors, qr, base>>
    /\ UNCHANGED outsidePipe

\* decorate_png_qr line 284 with no mode: the (framed) copy is returned
PersonalizeNone ==
    /\ pc = "personalize"
    /\ req.personalization_mode \notin {"minimal", "focal", "easter_egg"}
    /\ pc' = "encode_png"
    /\ UNCHANGED <<req, trace, colors, qr, img, base, out>>
    /\ UNCHANGED outsidePipe

\* make_qr lines 353-354
EncodePng ==
    /\ pc = "encode_png"
    /\ Stage("encode_png")
    /\ out' = [kind |-> "png", filename |-> "qr-code.png",
               background |-> "", error |-> ""]
    /\ pc' = "done"
    /\ UNCHANGED <<req, colors, qr, img, base>>
    /\ UNCHANGED outsidePipe

\* generate_qr lines 27-28
CliValidate ==
    /\ pc = "cli_validate"
    /\ Stage("validate")
    /\ IF DataMissing(req.data)
       THEN /\ pc' = "failed"
            /\ out' = [NoOutput EXCEPT
                         !.kind = "error",
                         !.error = "No data provided to encode in QR code."]
       ELSE /\ pc' = "cli_encode"
            /\ out' = out
    /\ UNCHANGED <<req, colors, qr, img, base>>
    /\ UNCHANGED outsidePipe

\* generate_qr lines 30-37
CliEncode ==
    /\ pc = "cli_encode"
    /\ Stage("encode")
    /\ \E version \in Versions :
         qr' = [version |-> version, ec |-> GenerateQrErrorCorrection,
                box_size |-> req.box_size, border |-> req.border]
    /\ pc' = "cli_render"
    /\ UNCHANGED <<req, colors, img, base, out>>
    /\ UNCHANGED outsidePipe

\* generate_qr line 39: make_image() with the library's black on white
CliRender ==
    /\ pc = "cli_render"
    /\ Stage("render_png")
    /\ img' = [RenderPngImage(qr.version, qr.box_size, qr.border, "black", "white")
               EXCEPT !.mode = "1"]
    /\ pc' = "cli_save"
    /\ UNCHANGED <<req, colors, qr, base, out>>
    /\ UNCHANGED outsidePipe

\* generate_qr lines 42-45
CliSave ==
    /\ pc = "cli_save"
    /\ Stage("save")
    /\ out' = [kind |-> "file", filename |-> "qr.png", background |-> "",
               error |-> ""]
    /\ pc' = "done"
    /\ UNCHANGED <<req, colors, qr, img, base>>
    /\ UNCHANGED outsidePipe

Next ==
    \/ Validate \/ ResolveColors \/ Encode \/ RenderSvg \/ RenderPng
    \/ Transparency \/ Frame
    \/ PersonalizeMinimal \/ PersonalizeFocal \/ PersonalizeEasterEgg
    \/ PersonalizeNone \/ EncodePng
    \/ CliValidate \/ CliEncode \/ CliRender \/ CliSave

Spec == Init /\ [][Next]_vars

----------------------------------------------------------------------------
(* Properties of the pipeline *)

Personalized ==
    /\ req.entry = "web" /\ pc \in {"encode_png", "done"}
    /\ "personalize" \in {trace[i] : i \in DOMAIN trace}
ModeIs(mode) == req.personalization_mode = mode

\* the shapes the personalization stage added
AddedLayers == {k \in DOMAIN img.layers : k > Len(base.layers)}

\* the centre pixel of module i (column or row) of the symbol
ModuleCentre(i) == img.q0 + i * qr.box_size + qr.box_size \div 2

\* the modules of the symbol whose centre the shape paints
CoveredModules(l) ==
    LET V == GridDimension(qr.version)
    IN {m \in (0..(V - 1)) \X (0..(V - 1)) :
          Paints(l, ModuleCentre(m[1]), ModuleCentre(m[2]))}

\* C1: in focal mode with content, the disk painted over the centre covers
\* at most 30% of the symbol's modules.
C1_FocalDiskWithinTolerance ==
    (Personalized /\ ModeIs("focal") /\ Truthy(req.content)) =>
        \A k \in AddedLayers :
            img.layers[k].kind = "ellipse" =>
                10 * Cardinality(CoveredModules(img.layers[k]))
                    <= 3 * GridDimension(qr.version) * GridDimension(qr.version)

\* C2: in minimal mode with content, the output is width x (height + 100)
\* and the pixels of the base region keep the colour they had before the
\* personalization (read along the centre column, where the badge sits).
C2_MinimalKeepsBaseRegion ==
    (Personalized /\ ModeIs("minimal") /\ Truthy(req.content)) =>
        /\ img.w = base.w
        /\ img.h = base.h + 100
        /\ \A y \in 0..(base.h - 1) :
             PixelAt(img, base.w \div 2, y).rgb = PixelAt(base, base.w \div 2, y).rgb

\* C3: with add_frame set, no pixel the frame stroke paints belongs to a
\* module of the symbol (read along the centre row and the centre column).
C3_FrameInsideQuietZone ==
    (pc \in {"personalize", "encode_png", "done"} /\ req.add_frame) =>
        /\ \A x \in 0..(base.w - 1) :
             Paints(base.layers[1], x, base.h \div 2)
                 => ~InSymbol(base, x, base.h \div 2)
        /\ \A y \in 0..(base.h - 1) :
             Paints(base.layers[1], base.w \div 2, y)
                 => ~InSymbol(base, base.w \div 2, y)

\* C5: a personalization mode given no content (None or empty) raises no
\* error and returns the image it was given: same size, same pixels.
C5_NoContentNoChange ==
    (/\ req.entry = "web"
     /\ req.personalization_mode \in {"minimal", "focal", "easter_egg"}
     /\ ~Truthy(req.content)
     /\ "personalize" \in {trace[i] : i \in DOMAIN trace}) =>
        /\ pc # "failed"
        /\ img = base

\* C6 as stated: every symbol rendered, through either entry point, is
\* encoded at error-correction level H.
C6_EveryRenderAtLevelH ==
    qr # NoSymbol => qr.ec = "H"

\* C6 amended: every symbol make_qr encodes is at level H, whatever the
\* request; generate_qr encodes at level M.
C6_WebAtLevelHCliAtLevelM ==
    qr # NoSymbol => qr.ec = (IF req.entry = "web" THEN "H" ELSE "M")

C6_Witness ==
    /\ req.entry = "web" /\ pc = "done" /\ out.kind = "png"
    /\ qr.ec = "H" /\ req.personalization_mode = "focal"

DecorationStages == {"render_png", "transparency", "frame", "personalize", "encode_png"}

\* C7: a vector request returns straight after the render stage: no
\* transparency, frame or personalization stage runs, the background is
\* transparent when transparent_bg is set and the resolved bg_color
\* otherwise, and the filename is qr-code.svg.
C7_VectorExclusive ==
    (req.entry = "web" /\ req.image_format = "svg") =>
        /\ \A i \in DOMAIN trace : trace[i] \notin DecorationStages
        /\ img = NoImage
        /\ pc \in {"validate", "resolve", "encode", "render", "done", "failed"}
        /\ pc = "done" =>
             /\ trace = <<"validate", "resolve", "encode", "render_svg">>
             /\ out.kind = "svg"
             /\ out.filename = "qr-code.svg"
             /\ req.transparent_bg => out.background = "transparent"
             /\ ~req.transparent_bg =>
                  out.background =
                      (IF req.style_preset = "gold" THEN "#faf5e6" ELSE "#ffffff")

C7_Witness ==
    /\ req.entry = "web" /\ req.image_format = "svg" /\ pc = "done"
    /\ req.add_frame /\ req.personalization_mode = "focal"
    /\ Truthy(req.content) /\ req.transparent_bg
    /\ out.background = "transparent"

EmptyInputErrors == {"No data provided", "No data provided to encode in QR code."}

\* C9: with empty data, make_qr and generate_qr fail with the empty-input
\* error before any other stage runs and produce nothing; with non-empty
\* data that error is never raised.
C9_EmptyDataFailsFirst ==
    /\ (req.data = "" /\ pc \notin {"validate", "cli_validate"}) =>
          /\ pc = "failed"
          /\ trace = <<"validate">>
          /\ out.kind = "error" /\ out.error \in EmptyInputErrors
          /\ out.filename = ""
          /\ colors = <<"", "">> /\ qr = NoSymbol /\ img = NoImage
    /\ req.data # "" => out.error \notin EmptyInputErrors

C9_Witness ==
    /\ req.entry = "web" /\ req.data = "" /\ pc = "failed"
    /\ out.error = "No data provided"
    /\ req.personalization_mode = "minimal"

----------------------------------------------------------------------------
(* Colour resolution on its own: every raw string, every preset *)

DigitSource == "abcd1234567890ef"
Blanks == "        "

\* blanks, an optional '#', hex digits, blanks
RawColours ==
    { SubSeq(Blanks, 1, l) \o h \o SubSeq(DigitSource, 1, k) \o SubSeq(Blanks, 1, t) :
        l \in 0..MaxPad, h \in {"", "#"}, k \in 0..MaxHexDigits, t \in 0..MaxPad }

\* the six presets, custom, the empty value and the form's default "classic"
PresetNames == DOMAIN presets \cup {"custom", "", "classic"}

InitColor ==
    /\ rawc \in [fg : RawColours, bg : RawColours, preset : PresetNames,
                 resolved : {FALSE}]
    /\ resc = <<"", "">>
    /\ IdlePipe /\ IdlePixels /\ IdleWeb

\* make_qr lines 307-309
Resolve ==
    /\ ~rawc.resolved
    /\ resc' = ResolveColorPair(rawc.fg, rawc.bg, rawc.preset)
    /\ rawc' = [rawc EXCEPT !.resolved = TRUE]
    /\ UNCHANGED <<req, pc, trace, colors, qr, img, base, out,
                   pix, once, applied, fs, rq, res>>

NextColor == Resolve

SpecColor == InitColor /\ [][NextColor]_vars

\* the preset table of the specification
SpecPresetTable(p) ==
    CASE p = "gold" -> <<"#b38b1b", "#faf5e6">>
      [] p = "silver" -> <<"#6f7c89", "#f5f5f7">>
      [] p = "wedding_ivory" -> <<"#C6A667", "#FBF7F2">>
      [] p = "birthday" -> <<"#E63946", "#F8EDFF">>
      [] p = "minimal_tech" -> <<"#000000", "#FFFFFF">>
      [] p = "craft_beer" -> <<"#8B4513", "#FFF8DC">>
KnownPresets ==
    {"gold", "silver", "wedding_ivory", "birthday", "minimal_tech", "craft_beer"}

WithHash(s) == IF s # "" /\ SubSeq(s, 1, 1) = "#" THEN s ELSE "#" \o s

\* normalization as the claim words it: prepend '#' when missing; an empty
\* value, or one whose length with '#' is not 4 or 7, becomes the default
NormalizedAsClaimed(value, default) ==
    IF value = "" \/ Len(WithHash(value)) \notin {4, 7}
    THEN default ELSE WithHash(value)

\* the same after trimming the blanks around the value
NormalizedTrimmed(value, default) ==
    IF value = "" \/ Len(WithHash(Strip(value))) \notin {4, 7}
    THEN default ELSE WithHash(Strip(value))

\* C8 as stated: a known preset gives the table pair; otherwise the pair is
\* the supplied colours normalized (no trimming).
C8_ResolvedAsClaimed ==
    rawc.resolved =>
        resc = IF rawc.preset \in KnownPresets THEN SpecPresetTable(rawc.preset)
               ELSE << NormalizedAsClaimed(rawc.fg, "#000000"),
                       NormalizedAsClaimed(rawc.bg, "#ffffff") >>

\* C8 amended: a known preset gives the table pair whatever the supplied
\* colours; otherwise the pair is the supplied colours normalized, where
\* normalization first trims surrounding whitespace, then prepends '#' when
\* missing, and replaces an empty value or one whose trimmed length with
\* '#' is not 4 or 7 by the default.
C8_ResolvedTrimmed ==
    rawc.resolved =>
        resc = IF rawc.preset \in KnownPresets THEN SpecPresetTable(rawc.preset)
               ELSE << NormalizedTrimmed(rawc.fg, "#000000"),
                       NormalizedTrimmed(rawc.bg, "#ffffff") >>

C8_Witness ==
    /\ rawc.resolved /\ rawc.preset = "classic"
    /\ rawc.fg = " #abc " /\ rawc.bg = "abcd123"
    /\ resc = <<"#abc", "#ffffff">>

----------------------------------------------------------------------------
(* The transparency transform on its own, on the flattened pixels *)

PixelColours == { <<255, 255, 255>>, <<0, 0, 0>>, <<179, 139, 27>> }

Opaque(rgb) == rgb \o <<255>>

\* one row of a render of module size 1: the quiet zone, the modules (the
\* first, a corner of the finder pattern, is dark), the quiet zone
RenderedRow(fg, bg, border, dark) ==
    [i \in 1..border |-> Opaque(bg)]
    \o [i \in DOMAIN dark |-> IF dark[i] THEN Opaque(fg) ELSE Opaque(bg)]
    \o [i \in 1..border |-> Opaque(bg)]

\* make_qr lines 338-346 with another replacement pixel
MakeTransparentBlack(datas) ==
    [i \in DOMAIN datas |->
        IF SubSeq(datas[i], 1, 3) = SubSeq(datas[1], 1, 3)
        THEN <<0, 0, 0, 0>> ELSE datas[i]]

\* make_qr lines 338-346
MakeTransparent(datas) ==
    [i \in DOMAIN datas |->
        IF SubSeq(datas[i], 1, 3) = SubSeq(datas[1], 1, 3)
        THEN <<255, 255, 255, 0>> ELSE datas[i]]

InitPixels ==
    /\ \E fg \in PixelColours, bg \in PixelColours, border \in 0..MaxBorder,
          dark \in [1..MaxModules -> BOOLEAN] :
         /\ dark[1]
         /\ pix = RenderedRow(fg, bg, border, dark)
    /\ once = <<>>
    /\ applied = 0
    /\ IdlePipe /\ IdleColor /\ IdleWeb

ApplyTransparency ==
    /\ applied < 2
    /\ pix' = MakeTransparent(pix)
    /\ once' = IF applied = 0 THEN pix' ELSE once
    /\ applied' = applied + 1
    /\ UNCHANGED <<req, pc, trace, colors, qr, img, base, out,
                   rawc, resc, fs, rq, res>>

NextPixels == ApplyTransparency

SpecPixels == InitPixels /\ [][NextPixels]_vars

\* C4 as stated: the transform applied twice gives pixel for pixel what it
\* gives applied once.
C4_TwiceEqualsOnce ==
    applied = 2 => pix = once

\* a pixel the first application left opaque with RGB (255, 255, 255)
OpaqueWhiteLeft ==
    \E i \in DOMAIN once :
        SubSeq(once[i], 1, 3) = <<255, 255, 255>> /\ once[i][4] # 0

\* C4 amended: the transform applied twice gives what it gives applied once
\* exactly when the first application left no opaque pixel of RGB
\* (255, 255, 255); otherwise the second application, which samples the
\* (255, 255, 255, 0) now at the origin, clears those pixels too.  Pixels
\* already transparent stay transparent either way.
C4_TwiceEqualsOnceUnlessWhiteLeft ==
    applied = 2 =>
        /\ (pix = once) <=> ~OpaqueWhiteLeft
        /\ \A i \in DOMAIN once : once[i][4] = 0 => pix[i] = once[i]
        /\ \A i \in DOMAIN once :
             pix[i] # once[i] =>
                 /\ SubSeq(once[i], 1, 3) = <<255, 255, 255>>
                 /\ pix[i] = <<255, 255, 255, 0>>

C4_Witness ==
    /\ applied = 2 /\ pix = once
    /\ \E i \in DOMAIN pix : pix[i][4] = 0
    /\ \E i \in DOMAIN pix : pix[i][4] = 255

----------------------------------------------------------------------------
(* The index view under concurrent POST requests with an upload *)

WebRequestIds == 1..MaxRequests
UploadNames == {"logo.png", "photo.png"}
Absent == "absent"

\* the bytes request r uploads
UploadOf(r) == <<"upload", r>>

InitWeb ==
    /\ fs = [n \in UploadNames |-> Absent]
    /\ rq \in [WebRequestIds ->
                 [pc : {"start"}, name : UploadNames,
                  data : {"", "https://example.com"},
                  personalization_mode : {"none", "focal"}]]
    /\ res = [r \in WebRequestIds |-> [read |-> "nothing", error |-> ""]]
    /\ IdlePipe /\ IdleColor /\ IdlePixels

\* index lines 396-409: secure_filename, file.save(filepath), content = filepath
SaveUpload(r) ==
    /\ rq[r].pc = "start"
    /\ fs' = [fs EXCEPT ![rq[r].name] = UploadOf(r)]
    /\ rq' = [rq EXCEPT ![r].pc = "saved"]
    /\ UNCHANGED res
    /\ UNCHANGED outsideWeb

\* index lines 411-425: make_qr; with a personalization mode it opens and
\* reads the file at content (Image.open, resize); an exception skips the
\* clean-up and ends the request with its message
CallMakeQr(r) ==
    /\ rq[r].pc = "saved"
    /\ IF DataMissing(rq[r].data)
       THEN /\ res' = [res EXCEPT ![r].error = "No data provided"]
            /\ rq' = [rq EXCEPT ![r].pc = "done"]
       ELSE IF rq[r].personalization_mode = "none"
       THEN /\ res' = res
            /\ rq' = [rq EXCEPT ![r].pc = "made"]
       ELSE IF fs[rq[r].name] = Absent
       THEN /\ res' = [res EXCEPT ![r].error = "FileNotFoundError"]
            /\ rq' = [rq EXCEPT ![r].pc = "done"]
       ELSE /\ res' = [res EXCEPT ![r].read = fs[rq[r].name]]
            /\ rq' = [rq EXCEPT ![r].pc = "made"]
    /\ UNCHANGED fs
    /\ UNCHANGED outsideWeb

\* index line 428: os.path.exists(content)
CheckExists(r) ==
    /\ rq[r].pc = "made"
    /\ rq' = [rq EXCEPT ![r].pc =
                 IF fs[rq[r].name] # Absent THEN "remove" ELSE "done"]
    /\ UNCHANGED <<fs, res>>
    /\ UNCHANGED outsideWeb

\* index lines 429-432: os.remove(content)
RemoveUpload(r) ==
    /\ rq[r].pc = "remove"
    /\ IF fs[rq[r].name] = Absent
       THEN /\ res' = [res EXCEPT ![r].error = "FileNotFoundError"]
            /\ fs' = fs
       ELSE /\ fs' = [fs EXCEPT ![rq[r].name] = Absent]
            /\ res' = res
    /\ rq' = [rq EXCEPT ![r].pc = "done"]
    /\ UNCHANGED outsideWeb

NextWeb ==
    \E r \in WebRequestIds :
        \/ SaveUpload(r) \/ CallMakeQr(r) \/ CheckExists(r) \/ RemoveUpload(r)

SpecWeb == InitWeb /\ [][NextWeb]_vars

\* what request r gets when it is the only request
OutcomeAlone(r) ==
    IF rq[r].data = "" THEN [read |-> "nothing", error |-> "No data provided"]
    ELSE IF rq[r].personalization_mode = "none"
    THEN [read |-> "nothing", error |-> ""]
    ELSE [read |-> UploadOf(r), error |-> ""]

\* C10: whatever the interleaving, a finished request has the outcome it
\* would have alone: it read the bytes it saved itself and met no error.
C10_RequestsIndependent ==
    \A r \in WebRequestIds : rq[r].pc = "done" => res[r] = OutcomeAlone(r)

====
